---- MODULE Spec2Model ----
(***************************************************************************)
(* A model of nccapo/paginate-metakit: the pagination Metadata record, its *)
(* normalisation (ValidateAndSetDefaults) and validation (Validate), and   *)
(* the pagination drivers built on them (GPaginate, Paginate,              *)
(* PaginateWithCount, QueryContextPaginate).                               *)
(*                                                                         *)
(* Go strings are TLA+ strings, except the cursor token, which is the      *)
(* sequence of its base64 symbols (0..63, 64 for the padding '='; any      *)
(* other number is a character outside the alphabet), so that encoding and *)
(* decoding are computed and "" is the empty sequence.                     *)
(***************************************************************************)
EXTENDS Integers, Sequences, FiniteSets, TLC

VARIABLES
    m,          \* the Metadata the caller owns (the *Metadata receiver)
    pre,        \* the Metadata as it was when the last operation was entered
    lastOp,     \* the operation that ran last
    validation, \* the ValidationResult the last Validate returned
    table,      \* the number of rows of the data source (ids 1 .. table)
    err,        \* the error the last driver call returned, "" for nil
    result,     \* the rows the last driver call fetched
    queries,    \* the queries the last driver call issued, in order
    codec,      \* a value on its way through encodeCursor and decodeCursor
    optimizer,  \* a query on its way through QueryOptimizer.OptimizeQuery
    engine      \* the database engine behind the handle of a traversal

vars ==
    <<m, pre, lastOp, validation, table, err, result, queries, codec, optimizer,
      engine>>

\* What the Metadata operations leave alone: the data source and the last call.
driverVars ==
    <<table, err, result, queries, engine>>

(***************************************************************************)
(* Program constants.                                                      *)
(***************************************************************************)
DefaultPage ==
    1

DefaultPageSize ==
    10

MaxPageSize ==
    100

(***************************************************************************)
(* Bounds of the model.                                                    *)
(***************************************************************************)
MaxPage ==
    3

MaxRows ==
    5

MaxTextLen ==
    3

(***************************************************************************)
(* Go arithmetic helpers.                                                  *)
(***************************************************************************)
\* Go's integer division truncates toward zero.
GoDiv(a, b) ==
    IF (a >= 0) = (b > 0)
    THEN (IF a >= 0 THEN a ELSE -a) \div (IF b > 0 THEN b ELSE -b)
    ELSE -((IF a >= 0 THEN a ELSE -a) \div (IF b > 0 THEN b ELSE -b))

(***************************************************************************)
(* Metadata.                                                               *)
(***************************************************************************)
RuleFields ==
    { "page_size", "sort", "fields" }

AbsentRule ==
    [ prefix |-> "", rest |-> <<>> ]

NoRules ==
    [ f \in RuleFields |-> AbsentRule ]

\* The zero value of the struct: what Metadata{} holds.
ZeroMetadata ==
    [ Page |-> 0, PageSize |-> 0, Sort |-> "", SortDirection |-> "",
      TotalRows |-> 0, TotalPages |-> 0, HasNext |-> FALSE,
      HasPrevious |-> FALSE, FromRow |-> 0, ToRow |-> 0,
      Cursor |-> <<>>, CursorField |-> "", CursorOrder |-> "",
      SelectedFields |-> <<>>, Debug |-> FALSE, ValidationRules |-> NoRules ]

NewMetadata ==
    [ ZeroMetadata EXCEPT !.Page = DefaultPage, !.PageSize = DefaultPageSize,
                          !.SortDirection = "asc" ]

\* Mutant: an oversized page size falls back to the default instead of the maximum.
SetDefaults_OversizeToDefault(md) ==
    [ md EXCEPT
        !.Page = IF md.Page < 1 THEN DefaultPage ELSE md.Page,
        !.PageSize = IF md.PageSize < 1 \/ md.PageSize > MaxPageSize
                     THEN DefaultPageSize ELSE md.PageSize,
        !.SortDirection = IF md.SortDirection # "asc" /\ md.SortDirection # "desc"
                          THEN "asc" ELSE md.SortDirection ]

\* Mutant: only an empty sort direction is defaulted, an invalid one is kept.
SetDefaults_KeepInvalidDirection(md) ==
    [ md EXCEPT
        !.Page = IF md.Page < 1 THEN DefaultPage ELSE md.Page,
        !.PageSize = IF md.PageSize < 1 THEN DefaultPageSize
                     ELSE IF md.PageSize > MaxPageSize THEN MaxPageSize
                     ELSE md.PageSize,
        !.SortDirection = IF md.SortDirection = "" THEN "asc" ELSE md.SortDirection ]

\* The first half of ValidateAndSetDefaults: the defaults of the raw fields.
SetDefaults(md) ==
    [ md EXCEPT
        !.Page = IF md.Page < 1 THEN DefaultPage ELSE md.Page,
        !.PageSize = IF md.PageSize < 1 THEN DefaultPageSize
                     ELSE IF md.PageSize > MaxPageSize THEN MaxPageSize
                     ELSE md.PageSize,
        !.SortDirection = IF md.SortDirection = "" THEN "asc"
                          ELSE IF md.SortDirection # "asc" /\ md.SortDirection # "desc"
                               THEN "asc"
                          ELSE md.SortDirection ]

\* Mutant: the last page also reports a next page (<= for <).
Derive_HasNextOnLastPage(md) ==
    IF md.TotalRows > 0
    THEN LET tp == GoDiv(md.TotalRows + md.PageSize - 1, md.PageSize)
             to == md.Page * md.PageSize
         IN [ md EXCEPT
                !.TotalPages = tp,
                !.HasNext = md.Page <= tp,
                !.HasPrevious = md.Page > 1,
                !.FromRow = (md.Page - 1) * md.PageSize + 1,
                !.ToRow = IF to > md.TotalRows THEN md.TotalRows ELSE to ]
    ELSE md

\* Mutant: ToRow is not clamped to TotalRows.
Derive_NoToRowClamp(md) ==
    IF md.TotalRows > 0
    THEN LET tp == GoDiv(md.TotalRows + md.PageSize - 1, md.PageSize)
         IN [ md EXCEPT
                !.TotalPages = tp,
                !.HasNext = md.Page < tp,
                !.HasPrevious = md.Page > 1,
                !.FromRow = (md.Page - 1) * md.PageSize + 1,
                !.ToRow = md.Page * md.PageSize ]
    ELSE md

\* The second half: the derived fields, computed only when TotalRows > 0.
Derive(md) ==
    IF md.TotalRows > 0
    THEN LET tp == GoDiv(md.TotalRows + md.PageSize - 1, md.PageSize)
             to == md.Page * md.PageSize
         IN [ md EXCEPT
                !.TotalPages = tp,
                !.HasNext = md.Page < tp,
                !.HasPrevious = md.Page > 1,
                !.FromRow = (md.Page - 1) * md.PageSize + 1,
                !.ToRow = IF to > md.TotalRows THEN md.TotalRows ELSE to ]
    ELSE md

\* Mutant: the derived fields are computed from the raw values, before the
\* defaults are applied (and not at all from a page size that cannot divide).
Normalize_DeriveBeforeDefaults(md) ==
    SetDefaults(IF md.PageSize > 0 THEN Derive(md) ELSE md)

Normalize(md) ==
    Derive(SetDefaults(md))

\* Mutant: the offset of a 0-based page number.
GetOffset_ZeroBasedPage(md) ==
    md.Page * md.PageSize

GetOffset(md) ==
    (md.Page - 1) * md.PageSize

GetLimit(md) ==
    md.PageSize

GetSortClause(md) ==
    IF md.Sort = "" THEN "" ELSE md.Sort \o " " \o md.SortDirection

IsCursorBased(md) ==
    md.Cursor # <<>> \/ md.CursorField # ""

NoValidation ==
    [ IsValid |-> TRUE, Errors |-> <<>> ]

(***************************************************************************)
(* The cursor codec.  A text is the sequence of its bytes; a token is the  *)
(* sequence of its base64 symbols.                                         *)
(***************************************************************************)
Pad ==
    64

\* base64.StdEncoding.EncodeToString: three bytes to four symbols, padded.
RECURSIVE B64Encode(_)
B64Encode(bytes) ==
    IF Len(bytes) = 0 THEN << >>
    ELSE IF Len(bytes) = 1
    THEN << bytes[1] \div 4, (bytes[1] % 4) * 16, Pad, Pad >>
    ELSE IF Len(bytes) = 2
    THEN << bytes[1] \div 4, (bytes[1] % 4) * 16 + bytes[2] \div 16,
            (bytes[2] % 16) * 4, Pad >>
    ELSE << bytes[1] \div 4, (bytes[1] % 4) * 16 + bytes[2] \div 16,
            (bytes[2] % 16) * 4 + bytes[3] \div 64, bytes[3] % 64 >>
         \o B64Encode(SubSeq(bytes, 4, Len(bytes)))

\* base64.StdEncoding.DecodeString succeeds on whole quanta of alphabet
\* symbols, with padding only as the last one or two symbols of the token.
B64DecodeOk(token) ==
    /\ Len(token) % 4 = 0
    /\ \A i \in DOMAIN token : token[i] \in 0 .. Pad
    /\ \A i \in DOMAIN token :
           token[i] = Pad =>
               \/ i = Len(token)
               \/ i = Len(token) - 1 /\ token[Len(token)] = Pad

RECURSIVE B64Decode(_)
B64Decode(token) ==
    IF Len(token) = 0 THEN << >>
    ELSE LET a == token[1]
             b == token[2]
             c == token[3]
             d == token[4]
             first == a * 4 + b \div 16
         IN IF c = Pad THEN << first >>
            ELSE IF d = Pad THEN << first, (b % 16) * 16 + c \div 4 >>
            ELSE << first, (b % 16) * 16 + c \div 4, (c % 4) * 64 + d >>
                 \o B64Decode(SubSeq(token, 5, Len(token)))

\* The ASCII bytes of a non-negative integer in decimal, as %v and %d print it.
RECURSIVE Digits(_)
Digits(n) ==
    IF n < 10 THEN << 48 + n >> ELSE Digits(n \div 10) \o << 48 + (n % 10) >>

IsNumber(bytes) ==
    /\ Len(bytes) > 0
    /\ \A i \in DOMAIN bytes : bytes[i] \in 48 .. 57

RECURSIVE ParseNumber(_)
ParseNumber(bytes) ==
    IF Len(bytes) = 0 THEN 0
    ELSE ParseNumber(SubSeq(bytes, 1, Len(bytes) - 1)) * 10
         + (bytes[Len(bytes)] - 48)

\* Mutant: the token is encoded without its padding.
EncodeCursor_Unpadded(text) ==
    SelectSeq(B64Encode(text), LAMBDA x : x # Pad)

\* encodeCursor(value) = base64 of fmt.Sprintf("%v", value).
EncodeCursor(text) ==
    B64Encode(text)

\* decodeCursor(cursor): the decoded text and whether DecodeString succeeded.
DecodeCursor(token) ==
    IF B64DecodeOk(token)
    THEN [ ok |-> TRUE, value |-> B64Decode(token) ]
    ELSE [ ok |-> FALSE, value |-> << >> ]

\* No value is in the codec: text is what fmt.Sprintf("%v", value) printed,
\* token what encodeCursor returned, ok and decoded what decodeCursor returned.
NoCodec ==
    [ step |-> "idle", text |-> << >>, token |-> << >>, ok |-> FALSE,
      decoded |-> << >> ]

(***************************************************************************)
(* The query optimizer.  Queries are strings; the functions of package     *)
(* strings it uses are computed character by character.                    *)
(***************************************************************************)
UpperCase ==
    "ABCDEFGHIJKLMNOPQRSTUVWXYZ"

LowerCase ==
    "abcdefghijklmnopqrstuvwxyz"

RECURSIVE ToLower(_)
ToLower(s) ==
    IF Len(s) = 0 THEN ""
    ELSE LET c == SubSeq(s, 1, 1)
             at == { i \in 1 .. Len(UpperCase) : SubSeq(UpperCase, i, i) = c }
         IN (IF at = {} THEN c
             ELSE SubSeq(LowerCase, CHOOSE i \in at : TRUE, CHOOSE i \in at : TRUE))
            \o ToLower(SubSeq(s, 2, Len(s)))

\* strings.Index: the first position at which substr occurs in s, 0 if none.
Index(s, substr) ==
    LET at == { i \in 1 .. Len(s) - Len(substr) + 1 :
                  SubSeq(s, i, i + Len(substr) - 1) = substr }
    IN IF at = {} THEN 0 ELSE CHOOSE i \in at : \A j \in at : i <= j

\* strings.Contains.
StringsContains(s, substr) ==
    Index(s, substr) # 0

\* strings.Replace(s, old, new, 1).
ReplaceFirst(s, old, new) ==
    IF Index(s, old) = 0 THEN s
    ELSE SubSeq(s, 1, Index(s, old) - 1) \o new
         \o SubSeq(s, Index(s, old) + Len(old), Len(s))

AddMySQLIndexHints(query) ==
    IF StringsContains(ToLower(query), "where")
    THEN ReplaceFirst(query, "WHERE", "FORCE INDEX (idx_created_at) WHERE")
    ELSE query

AddPostgreSQLIndexHints(query) ==
    IF StringsContains(ToLower(query), "where")
    THEN ReplaceFirst(query, "WHERE",
                      "WHERE /*+ IndexScan(table_name idx_created_at) */")
    ELSE query

AddMaterializedView(query, dialect) ==
    IF dialect = "PostgreSQL" THEN "WITH MATERIALIZED " \o query
    ELSE IF dialect = "MySQL" THEN "WITH RECURSIVE " \o query
    ELSE query

AddRowLimit(query, limit, dialect) ==
    query \o " LIMIT " \o ToString(limit)

\* QueryOptimizer.OptimizeQuery(query, dialect); q holds the optimizer's
\* UseIndexHint, UseMaterialized and MaxRows.
OptimizeQuery(q, query, dialect) ==
    LET hinted == IF q.UseIndexHint /\ dialect = "MySQL"
                  THEN AddMySQLIndexHints(query)
                  ELSE IF q.UseIndexHint /\ dialect = "PostgreSQL"
                  THEN AddPostgreSQLIndexHints(query)
                  ELSE query
        viewed == IF q.UseMaterialized THEN AddMaterializedView(hinted, dialect)
                  ELSE hinted
    IN IF q.RowLimit > 0 THEN AddRowLimit(viewed, q.RowLimit, dialect) ELSE viewed

NoOptimizer ==
    [ step |-> "idle",
      q |-> [ UseIndexHint |-> FALSE, UseMaterialized |-> FALSE, RowLimit |-> 0 ],
      dialect |-> "", query |-> "", optimized |-> "" ]

(***************************************************************************)
(* Validate.  A ValidationError is a record of Field, Message and Code.    *)
(* A rule string of ValidationRules is kept as its prefix up to the colon  *)
(* and the comma-separated pieces that follow it ("in:a,b" is prefix "in:" *)
(* and rest <<"a", "b">>; a rule with nothing after the colon has rest     *)
(* <<"">>, as strings.Split gives).  The map holds one entry per rule      *)
(* field; a key that is not in the map holds AbsentRule.                   *)
(***************************************************************************)
RuleKeys(md) ==
    { f \in RuleFields : md.ValidationRules[f] # AbsentRule }

\* strconv.Atoi on the decimal strings the model uses; anything else is an error.
AtoiTable ==
    [ s \in { "20", "50" } |-> IF s = "20" THEN 20 ELSE 50 ]

AtoiOk(pieces) ==
    Len(pieces) = 1 /\ pieces[1] \in DOMAIN AtoiTable

Atoi(pieces) ==
    AtoiTable[pieces[1]]

RECURSIVE Join(_, _)
Join(pieces, sep) ==
    IF Len(pieces) = 0 THEN ""
    ELSE IF Len(pieces) = 1 THEN pieces[1]
    ELSE pieces[1] \o sep \o Join(Tail(pieces), sep)

Contains(pieces, v) ==
    \E i \in DOMAIN pieces : pieces[i] = v

ValidationError(field, message, code) ==
    [ Field |-> field, Message |-> message, Code |-> code ]

PageCheck(md) ==
    IF md.Page < 1
    THEN << ValidationError("page", "Page must be greater than 0", "PAGE_NEGATIVE") >>
    ELSE << >>

PageSizeCheck(md) ==
    IF md.PageSize < 1
    THEN << ValidationError("page_size", "Page size must be greater than 0",
                            "PAGE_SIZE_NEGATIVE") >>
    ELSE IF md.PageSize > MaxPageSize
    THEN << ValidationError("page_size", "Page size must be less than or equal to 100",
                            "PAGE_SIZE_TOO_LARGE") >>
    ELSE << >>

SortDirectionCheck(md) ==
    IF md.SortDirection # "" /\ md.SortDirection # "asc" /\ md.SortDirection # "desc"
    THEN << ValidationError("sort_direction",
                            "Sort direction must be either 'asc' or 'desc'",
                            "INVALID_SORT_DIRECTION") >>
    ELSE << >>

\* Mutant: the cursor field is required whether or not a cursor is given.
CursorFieldCheck_AlwaysRequired(md) ==
    IF md.CursorField = ""
    THEN << ValidationError("cursor_field",
                            "Cursor field is required when using cursor-based pagination",
                            "MISSING_CURSOR_FIELD") >>
    ELSE << >>

CursorFieldCheck(md) ==
    IF md.Cursor # <<>> /\ md.CursorField = ""
    THEN << ValidationError("cursor_field",
                            "Cursor field is required when using cursor-based pagination",
                            "MISSING_CURSOR_FIELD") >>
    ELSE << >>

CursorOrderCheck(md) ==
    IF md.CursorField # "" /\ md.CursorOrder # ""
       /\ md.CursorOrder # "asc" /\ md.CursorOrder # "desc"
    THEN << ValidationError("cursor_order",
                            "Cursor order must be either 'asc' or 'desc'",
                            "INVALID_CURSOR_ORDER") >>
    ELSE << >>

\* Mutant: the built-in checks stop at the first one that fails.
BuiltinErrors_FirstOnly(md) ==
    LET all == PageCheck(md) \o PageSizeCheck(md) \o SortDirectionCheck(md)
               \o CursorFieldCheck(md) \o CursorOrderCheck(md)
    IN IF all = << >> THEN << >> ELSE << all[1] >>

\* The built-in checks, in the order Validate makes them.
BuiltinErrors(md) ==
    PageCheck(md) \o PageSizeCheck(md) \o SortDirectionCheck(md)
    \o CursorFieldCheck(md) \o CursorOrderCheck(md)

\* Mutant: "max:N" rejects the page size N itself.
PageSizeRule_MaxExclusive(md, rule) ==
    IF rule.prefix = "max:" /\ AtoiOk(rule.rest) /\ md.PageSize >= Atoi(rule.rest)
    THEN << ValidationError("page_size",
                "Page size must be less than or equal to "
                    \o ToString(Atoi(rule.rest)),
                "PAGE_SIZE_EXCEEDS_MAX") >>
    ELSE << >>

PageSizeRule(md, rule) ==
    IF rule.prefix = "max:"
    THEN IF AtoiOk(rule.rest) /\ md.PageSize > Atoi(rule.rest)
         THEN << ValidationError("page_size",
                     "Page size must be less than or equal to "
                         \o ToString(Atoi(rule.rest)),
                     "PAGE_SIZE_EXCEEDS_MAX") >>
         ELSE << >>
    ELSE IF rule.prefix = "min:"
    THEN IF AtoiOk(rule.rest) /\ md.PageSize < Atoi(rule.rest)
         THEN << ValidationError("page_size",
                     "Page size must be greater than or equal to "
                         \o ToString(Atoi(rule.rest)),
                     "PAGE_SIZE_BELOW_MIN") >>
         ELSE << >>
    ELSE << >>

SortRule(md, rule) ==
    IF rule.prefix = "in:" /\ md.Sort # "" /\ ~Contains(rule.rest, md.Sort)
    THEN << ValidationError("sort",
                "Sort field must be one of: " \o Join(rule.rest, ", "),
                "INVALID_SORT_FIELD") >>
    ELSE << >>

\* Mutant: the loop over the selected fields reports the last field the rule
\* does not allow.
FirstInvalidField_Last(md, allowed) ==
    LET bad == { i \in DOMAIN md.SelectedFields :
                   md.SelectedFields[i] # "*"
                   /\ ~Contains(allowed, md.SelectedFields[i]) }
    IN IF bad = {} THEN 0 ELSE CHOOSE i \in bad : \A j \in bad : i >= j

\* The first selected field, other than "*", that the rule does not allow.
FirstInvalidField(md, allowed) ==
    LET bad == { i \in DOMAIN md.SelectedFields :
                   md.SelectedFields[i] # "*"
                   /\ ~Contains(allowed, md.SelectedFields[i]) }
    IN IF bad = {} THEN 0 ELSE CHOOSE i \in bad : \A j \in bad : i <= j

FieldsRule(md, rule) ==
    IF rule.prefix = "in:" /\ FirstInvalidField(md, rule.rest) # 0
    THEN << ValidationError("fields",
                "Selected field '"
                    \o md.SelectedFields[FirstInvalidField(md, rule.rest)]
                    \o "' is not allowed. Allowed fields: " \o Join(rule.rest, ", "),
                "INVALID_SELECTED_FIELD") >>
    ELSE << >>

RuleErrors(md, field) ==
    IF field = "page_size" THEN PageSizeRule(md, md.ValidationRules[field])
    ELSE IF field = "sort" THEN SortRule(md, md.ValidationRules[field])
    ELSE FieldsRule(md, md.ValidationRules[field])

\* The custom rules, in the order the range over the map visits its keys.
RECURSIVE CustomErrors(_, _)
CustomErrors(md, order) ==
    IF order = << >> THEN << >>
    ELSE RuleErrors(md, Head(order)) \o CustomErrors(md, Tail(order))

\* The orders in which a range over the map may visit its keys.
KeyOrders(md) ==
    { o \in [ 1 .. Cardinality(RuleKeys(md)) -> RuleKeys(md) ] :
        \A i, j \in DOMAIN o : i # j => o[i] # o[j] }

ValidateResult(md, order) ==
    LET errors == BuiltinErrors(md) \o CustomErrors(md, order)
    IN [ IsValid |-> Len(errors) = 0, Errors |-> errors ]

(***************************************************************************)
(* The data source.  The query handle the callers pass is the users table  *)
(* of the tests: row i has ID i and a name whose order differs from the    *)
(* order of the ids.  A query is a record of what the driver applied to    *)
(* the handle: the selected columns, the ORDER BY clause, the cursor       *)
(* condition, OFFSET and LIMIT (each << >> when not applied), and for the  *)
(* raw-SQL entry point the query text and its arguments; a count statement *)
(* that succeeded also holds the number it returned.  Every call gets      *)
(* a fresh handle and a fresh destination, and a count and the fetch that  *)
(* follows it see the same rows.                                           *)
(***************************************************************************)
NameKey(i) ==
    (3 * i) % 7

UserName(k) ==
    "user" \o ToString(k)

Row(i) ==
    [ ID |-> i, Name |-> UserName(NameKey(i)) ]

\* The bytes of a row's name ("" for a column that was not selected).
NameBytes(name) ==
    IF name = "" THEN << >>
    ELSE << 117, 115, 101, 114 >>
         \o Digits(CHOOSE k \in 1 .. 9 : UserName(k) = name)

\* fmt.Sprintf("%v", map[string]interface{}{"id": id, "name": name, "page": page}):
\* "map[id:<id> name:<name> page:<page>]", the keys in sorted order.
CursorText(id, name, page) ==
    << 109, 97, 112, 91, 105, 100, 58 >> \o Digits(id)
    \o << 32, 110, 97, 109, 101, 58 >> \o NameBytes(name)
    \o << 32, 112, 97, 103, 101, 58 >> \o Digits(page) \o << 93 >>

Dialects ==
    { "MySQL", "PostgreSQL", "SQLite" }

\* The engine of the repository's tests.
TestEngine ==
    "SQLite"

EmptyQuery ==
    [ op |-> "", select |-> << >>, order |-> << >>, where |-> << >>,
      offset |-> << >>, limit |-> << >>, text |-> "", args |-> << >>,
      count |-> << >> ]

SortKey(i, field) ==
    IF field = "id" THEN i ELSE NameKey(i)

\* The ids of a set of rows in the order of an ORDER BY clause.
RECURSIVE SortIds(_, _, _)
SortIds(ids, field, dir) ==
    IF ids = {} THEN << >>
    ELSE LET first == CHOOSE i \in ids :
                          \A j \in ids :
                              IF dir = "desc"
                              THEN SortKey(i, field) >= SortKey(j, field)
                              ELSE SortKey(i, field) <= SortKey(j, field)
         IN << first >> \o SortIds(ids \ { first }, field, dir)

\* Whether the engine refuses the query: an ORDER BY with no column, or, on
\* PostgreSQL, an integer column compared with a text that is no number.
QueryRefused(q, dialect) ==
    \/ q.order # << >> /\ q.order[1].field = ""
    \/ q.where # << >> /\ ~IsNumber(q.where[1].value) /\ dialect = "PostgreSQL"

\* The rows the cursor condition keeps.  Against a text that is no number,
\* SQLite orders every integer below the text and MySQL reads the text as 0.
Matching(q, n, dialect) ==
    IF q.where = << >> THEN 1 .. n
    ELSE LET w == q.where[1]
         IN IF IsNumber(w.value)
            THEN { i \in 1 .. n : IF w.operator = ">" THEN i > ParseNumber(w.value)
                                  ELSE i < ParseNumber(w.value) }
            ELSE IF (dialect = "SQLite") = (w.operator = "<") THEN 1 .. n ELSE {}

Project(row, select) ==
    IF select = << >> THEN row
    ELSE [ ID |-> IF Contains(select, "id") THEN row.ID ELSE 0,
           Name |-> IF Contains(select, "name") THEN row.Name ELSE "" ]

\* The rows a fetch returns from a table of n rows.
Execute(q, n, dialect) ==
    LET ordered == IF q.order = << >> THEN SortIds(Matching(q, n, dialect), "id", "asc")
                   ELSE SortIds(Matching(q, n, dialect), q.order[1].field,
                                q.order[1].dir)
        from == IF q.offset = << >> THEN 1 ELSE q.offset[1] + 1
        upto == IF q.limit = << >> \/ from + q.limit[1] - 1 > Len(ordered)
                THEN Len(ordered) ELSE from + q.limit[1] - 1
    IN [ k \in 1 .. (IF upto >= from THEN upto - from + 1 ELSE 0) |->
           Project(Row(ordered[from + k - 1]), q.select) ]

(***************************************************************************)
(* The GORM drivers.                                                       *)
(***************************************************************************)
Operator(md) ==
    IF md.CursorOrder = "desc" THEN "<" ELSE ">"

\* Mutant: a token that does not decode is bound to the condition as it is.
ApplyCursorPagination_BindsUndecoded(q, md) ==
    IF md.Cursor = << >> THEN [ q EXCEPT !.limit = << GetLimit(md) >> ]
    ELSE [ q EXCEPT
             !.where = << [ field |-> md.CursorField, operator |-> Operator(md),
                            value |-> IF DecodeCursor(md.Cursor).ok
                                      THEN DecodeCursor(md.Cursor).value
                                      ELSE md.Cursor ] >>,
             !.limit = << GetLimit(md) >> ]

\* applyCursorPagination: the first page is limited only; a token that does
\* not decode returns the handle as it is; otherwise the condition and the limit.
ApplyCursorPagination(q, md) ==
    IF md.Cursor = << >> THEN [ q EXCEPT !.limit = << GetLimit(md) >> ]
    ELSE IF ~DecodeCursor(md.Cursor).ok THEN q
    ELSE [ q EXCEPT
             !.where = << [ field |-> md.CursorField, operator |-> Operator(md),
                            value |-> DecodeCursor(md.Cursor).value ] >>,
             !.limit = << GetLimit(md) >> ]

\* The scope GPaginate(m) returns, applied to the handle after the Metadata
\* has been normalized: field selection, sorting, then cursor or offset paging.
ScopeQuery(md) ==
    LET selected == [ EmptyQuery EXCEPT
                        !.op = "find",
                        !.select = IF Len(md.SelectedFields) > 0
                                      /\ md.SelectedFields[1] # "*"
                                   THEN md.SelectedFields ELSE << >> ]
        sorted == IF md.Sort # ""
                  THEN [ selected EXCEPT
                           !.order = << [ field |-> md.Sort,
                                          dir |-> md.SortDirection ] >> ]
                  ELSE selected
    IN IF IsCursorBased(md) THEN ApplyCursorPagination(sorted, md)
       ELSE [ sorted EXCEPT !.offset = << GetOffset(md) >>,
                            !.limit = << GetLimit(md) >> ]

IsValid(md) ==
    Len(BuiltinErrors(md) \o CustomErrors(md, CHOOSE o \in KeyOrders(md) : TRUE)) = 0

\* Mutant: the next cursor is attached whether or not a next page exists.
AttachCursor_IgnoresHasNext(md, rows) ==
    IF IsCursorBased(md) /\ Len(rows) > 0
    THEN [ md EXCEPT !.Cursor = EncodeCursor(CursorText(rows[Len(rows)].ID,
                                                        rows[Len(rows)].Name,
                                                        md.Page)) ]
    ELSE md

\* The next cursor: the last row's id and name and the page, encoded.
AttachCursor(md, rows) ==
    IF IsCursorBased(md) /\ md.HasNext /\ Len(rows) > 0
    THEN [ md EXCEPT !.Cursor = EncodeCursor(CursorText(rows[Len(rows)].ID,
                                                        rows[Len(rows)].Name,
                                                        md.Page)) ]
    ELSE md

\* Mutant: in debug mode the call returns after printing, before the next
\* cursor is attached.
CountedRun_DebugSkipsCursor(md, total, n, fetchFails, dialect, countQuery) ==
    LET counted == [ md EXCEPT !.TotalRows = total ]
        dryRun == IF md.Debug THEN Normalize(counted) ELSE counted
        scoped == Normalize(dryRun)
        find == ScopeQuery(scoped)
        issued == << countQuery >>
                  \o (IF md.Debug THEN << [ find EXCEPT !.op = "tosql" ] >> ELSE << >>)
                  \o << find >>
    IN IF fetchFails \/ QueryRefused(find, dialect)
       THEN [ m |-> scoped, err |-> "fetch failed", result |-> << >>,
              queries |-> issued ]
       ELSE [ m |-> IF md.Debug THEN Normalize(scoped)
                    ELSE AttachCursor(Normalize(scoped), Execute(find, n, dialect)),
              err |-> "", result |-> Execute(find, n, dialect),
              queries |-> issued ]

\* The part Paginate and PaginateWithCount share once the count has returned
\* total: m.TotalRows = total, the dry run of debug mode, the fetch through
\* the scope, the second normalisation and the next cursor.
CountedRun(md, total, n, fetchFails, dialect, countQuery) ==
    LET counted == [ md EXCEPT !.TotalRows = total ]
        dryRun == IF md.Debug THEN Normalize(counted) ELSE counted
        scoped == Normalize(dryRun)
        find == ScopeQuery(scoped)
        issued == << countQuery >>
                  \o (IF md.Debug THEN << [ find EXCEPT !.op = "tosql" ] >> ELSE << >>)
                  \o << find >>
    IN IF fetchFails \/ QueryRefused(find, dialect)
       THEN [ m |-> scoped, err |-> "fetch failed", result |-> << >>,
              queries |-> issued ]
       ELSE [ m |-> AttachCursor(Normalize(scoped), Execute(find, n, dialect)),
              err |-> "", result |-> Execute(find, n, dialect),
              queries |-> issued ]

\* Mutant: Paginate counts before it validates.
PaginateRun_CountFirst(md, n, countFails, fetchFails, dialect) ==
    LET count == [ EmptyQuery EXCEPT !.op = "count" ]
        counted == [ count EXCEPT !.count = << n >> ]
    IN IF countFails
       THEN [ m |-> md, err |-> "count failed", result |-> << >>,
              queries |-> << count >> ]
       ELSE IF ~IsValid(md)
       THEN [ m |-> md, err |-> "invalid metadata", result |-> << >>,
              queries |-> << counted >> ]
       ELSE CountedRun(md, n, n, fetchFails, dialect, counted)

\* Paginate(db, m, result) on a table of n rows.
PaginateRun(md, n, countFails, fetchFails, dialect) ==
    LET count == [ EmptyQuery EXCEPT !.op = "count" ]
    IN IF ~IsValid(md)
       THEN [ m |-> md, err |-> "invalid metadata", result |-> << >>,
              queries |-> << >> ]
       ELSE IF countFails
       THEN [ m |-> md, err |-> "count failed", result |-> << >>,
              queries |-> << count >> ]
       ELSE CountedRun(md, n, n, fetchFails, dialect,
                       [ count EXCEPT !.count = << n >> ])

\* Mutant: PaginateWithCount takes TotalRows from the rows of the result query.
PaginateWithCountRun_CountsResultQuery(md, n, counted, countFails, fetchFails, dialect) ==
    LET count == [ EmptyQuery EXCEPT !.op = "customcount" ]
    IN IF ~IsValid(md)
       THEN [ m |-> md, err |-> "invalid metadata", result |-> << >>,
              queries |-> << >> ]
       ELSE IF countFails
       THEN [ m |-> md, err |-> "count failed", result |-> << >>,
              queries |-> << count >> ]
       ELSE CountedRun(md, n, n, fetchFails, dialect,
                       [ count EXCEPT !.count = << counted >> ])

\* PaginateWithCount(db, countQuery, m, result): the count comes from the
\* caller's count query, which counts `counted` rows.
PaginateWithCountRun(md, n, counted, countFails, fetchFails, dialect) ==
    LET count == [ EmptyQuery EXCEPT !.op = "customcount" ]
    IN IF ~IsValid(md)
       THEN [ m |-> md, err |-> "invalid metadata", result |-> << >>,
              queries |-> << >> ]
       ELSE IF countFails
       THEN [ m |-> md, err |-> "count failed", result |-> << >>,
              queries |-> << count >> ]
       ELSE CountedRun(md, counted, n, fetchFails, dialect,
                       [ count EXCEPT !.count = << counted >> ])

(***************************************************************************)
(* Inputs of the normalisation specification: a Metadata literal with any  *)
(* raw values, derived fields zero.                                        *)
(***************************************************************************)
Pages ==
    -1 .. MaxPage

PageSizes ==
    { -1, 0, 1, 3, 20, MaxPageSize, MaxPageSize + 1, 200 }

RowCounts ==
    { -1, 0, 1, 5, 100 }

SortDirections ==
    { "", "asc", "desc", "up" }

CursorOrders ==
    { "", "asc", "desc", "sideways" }

InitNormalize ==
    /\ \E p \in Pages, ps \in PageSizes, tr \in RowCounts,
          sd \in SortDirections, co \in CursorOrders :
          m = [ ZeroMetadata EXCEPT !.Page = p, !.PageSize = ps, !.TotalRows = tr,
                                    !.SortDirection = sd, !.CursorOrder = co ]
    /\ pre = m
    /\ lastOp = "init"
    /\ validation = NoValidation
    /\ table = 0 /\ err = "" /\ result = << >> /\ queries = << >>
    /\ codec = NoCodec
    /\ optimizer = NoOptimizer
    /\ engine = TestEngine

(***************************************************************************)
(* Operations on the Metadata.                                             *)
(***************************************************************************)
ValidateAndSetDefaults ==
    /\ m' = Normalize(m)
    /\ pre' = m
    /\ lastOp' = "ValidateAndSetDefaults"
    /\ UNCHANGED <<validation, driverVars, codec, optimizer>>

\* The caller (or a driver) stores a count: m.TotalRows = total.
SetTotalRows ==
    \E tr \in RowCounts :
        /\ m' = [ m EXCEPT !.TotalRows = tr ]
        /\ pre' = m
        /\ lastOp' = "SetTotalRows"
        /\ UNCHANGED <<validation, driverVars, codec, optimizer>>

NextNormalize ==
    \/ ValidateAndSetDefaults
    \/ SetTotalRows

SpecNormalize ==
    InitNormalize /\ [][NextNormalize]_vars

(***************************************************************************)
(* Inputs of the validation specification: the built-in checks over any    *)
(* raw values, and the custom rules over page sizes, sort fields and       *)
(* selected fields.                                                        *)
(***************************************************************************)
\* A well-formed token, the base64 of the two bytes <<1, 2>>, and one that is not.
SomeCursor ==
    << 0, 16, 8, 64 >>

Cursors ==
    { << >>, SomeCursor }

CursorFields ==
    { "", "id" }

RulePageSizes ==
    { 0, 10, 30, 50, 60, 200 }

SortFields ==
    { "", "name", "bogus" }

FieldLists ==
    { << >>, << "*" >>, << "id", "name" >>, << "*", "bogus", "worse" >>,
      << "id", "bogus" >> }

Rule(prefix, rest) ==
    [ prefix |-> prefix, rest |-> rest ]

RuleSets ==
    { NoRules,
      [ NoRules EXCEPT !["page_size"] = Rule("max:", << "50" >>) ],
      [ NoRules EXCEPT !["page_size"] = Rule("max:", << "20" >>) ],
      [ NoRules EXCEPT !["page_size"] = Rule("min:", << "20" >>) ],
      [ NoRules EXCEPT !["page_size"] = Rule("max:", << "many" >>) ],
      [ NoRules EXCEPT !["sort"] = Rule("in:", << "name", "email" >>) ],
      [ NoRules EXCEPT !["fields"] = Rule("in:", << "id", "name" >>) ],
      [ NoRules EXCEPT !["page_size"] = Rule("max:", << "50" >>),
                       !["sort"] = Rule("in:", << "name", "email" >>),
                       !["fields"] = Rule("in:", << "id", "name" >>) ],
      [ NoRules EXCEPT !["sort"] = Rule("required", << >>) ] }

InitValidate ==
    /\ \/ \E p \in Pages, ps \in PageSizes, sd \in SortDirections,
             c \in Cursors, cf \in CursorFields, co \in CursorOrders :
             m = [ ZeroMetadata EXCEPT !.Page = p, !.PageSize = ps,
                                       !.SortDirection = sd, !.Cursor = c,
                                       !.CursorField = cf, !.CursorOrder = co ]
       \/ \E p \in { 0, 1 }, ps \in RulePageSizes, s \in SortFields,
             f \in FieldLists, r \in RuleSets :
             m = [ NewMetadata EXCEPT !.Page = p, !.PageSize = ps, !.Sort = s,
                                      !.SelectedFields = f, !.ValidationRules = r ]
    /\ pre = m
    /\ lastOp = "init"
    /\ validation = NoValidation
    /\ table = 0 /\ err = "" /\ result = << >> /\ queries = << >>
    /\ codec = NoCodec
    /\ optimizer = NoOptimizer
    /\ engine = TestEngine

\* Mutant: Validate repairs the page and the page size it complains about.
Validate_Repairing ==
    \E order \in KeyOrders(m) :
        /\ validation' = ValidateResult(m, order)
        /\ m' = SetDefaults(m)
        /\ pre' = m
        /\ lastOp' = "Validate"
        /\ UNCHANGED <<driverVars, codec, optimizer>>

\* Validate reads the Metadata and returns a result; it assigns no field.
Validate ==
    \E order \in KeyOrders(m) :
        /\ validation' = ValidateResult(m, order)
        /\ m' = m
        /\ pre' = m
        /\ lastOp' = "Validate"
        /\ UNCHANGED <<driverVars, codec, optimizer>>

NextValidate ==
    \/ Validate
    \/ ValidateAndSetDefaults

SpecValidate ==
    InitValidate /\ [][NextValidate]_vars

(***************************************************************************)
(* Claims about Validate, checked under SpecValidate.                      *)
(***************************************************************************)
Validated ==
    lastOp = "Validate"

\* C8: Validate never mutates the Metadata: every field (raw, derived,
\* SelectedFields, ValidationRules) is the same after the call as before it.
C8_ValidateDoesNotMutate ==
    Validated => m = pre

C8_Witness ==
    /\ Validated
    /\ ~validation.IsValid
    /\ m.Page < 1 /\ m.PageSize > 100 /\ m.SortDirection = "up"
    /\ m = pre

\* The codes of the built-in rules a Metadata violates, stated rule by rule.
ViolatedBuiltins(md) ==
    { c \in { "PAGE_NEGATIVE", "PAGE_SIZE_NEGATIVE", "PAGE_SIZE_TOO_LARGE",
              "INVALID_SORT_DIRECTION", "MISSING_CURSOR_FIELD",
              "INVALID_CURSOR_ORDER" } :
        \/ c = "PAGE_NEGATIVE" /\ md.Page < 1
        \/ c = "PAGE_SIZE_NEGATIVE" /\ md.PageSize < 1
        \/ c = "PAGE_SIZE_TOO_LARGE" /\ md.PageSize > 100
        \/ c = "INVALID_SORT_DIRECTION" /\ md.SortDirection \notin { "", "asc", "desc" }
        \/ c = "MISSING_CURSOR_FIELD" /\ md.Cursor # << >> /\ md.CursorField = ""
        \/ c = "INVALID_CURSOR_ORDER" /\ md.CursorField # ""
             /\ md.CursorOrder \notin { "", "asc", "desc" } }

ErrorsWithCode(c) ==
    { i \in DOMAIN validation.Errors : validation.Errors[i].Code = c }

\* C10: Validate evaluates its built-in checks independently: the result holds
\* exactly one error for each built-in rule the Metadata violates and none for a
\* rule it satisfies (Page=0 with PageSize=200 gives both errors), and IsValid is
\* true exactly when the error list is empty.
C10_IndependentChecks ==
    Validated =>
        /\ validation.IsValid = (Len(validation.Errors) = 0)
        /\ \A c \in { "PAGE_NEGATIVE", "PAGE_SIZE_NEGATIVE", "PAGE_SIZE_TOO_LARGE",
                      "INVALID_SORT_DIRECTION", "MISSING_CURSOR_FIELD",
                      "INVALID_CURSOR_ORDER" } :
               Cardinality(ErrorsWithCode(c))
                   = IF c \in ViolatedBuiltins(pre) THEN 1 ELSE 0
        /\ RuleKeys(pre) = {} => validation.IsValid = (ViolatedBuiltins(pre) = {})

C10_Witness ==
    /\ Validated
    /\ pre.Page = 0 /\ pre.PageSize = 200
    /\ ~validation.IsValid
    /\ Len(validation.Errors) = 2
    /\ validation.Errors[1].Code = "PAGE_NEGATIVE"
    /\ validation.Errors[2].Code = "PAGE_SIZE_TOO_LARGE"

\* C11: Validate reports MISSING_CURSOR_FIELD exactly when Cursor is non-empty
\* and CursorField is empty, so every Metadata in cursor mode (Cursor or
\* CursorField non-empty) that passes validation has a non-empty CursorField.
C11_MissingCursorField ==
    Validated =>
        /\ (ErrorsWithCode("MISSING_CURSOR_FIELD") # {})
               = (pre.Cursor # << >> /\ pre.CursorField = "")
        /\ (validation.IsValid /\ (pre.Cursor # << >> \/ pre.CursorField # ""))
               => pre.CursorField # ""

C11_Witness ==
    /\ Validated
    /\ pre.Cursor # << >> /\ pre.CursorField = ""
    /\ ~validation.IsValid
    /\ Len(validation.Errors) = 1
    /\ validation.Errors[1].Code = "MISSING_CURSOR_FIELD"

\* The only custom rule is page_size -> "max:<limit>".
OnlyMaxRule(md, limit) ==
    /\ RuleKeys(md) = { "page_size" }
    /\ md.ValidationRules["page_size"] = Rule("max:", << limit >>)

\* C12: with the custom rule page_size -> "max:N" and an otherwise valid
\* Metadata, Validate is valid when PageSize <= N and returns exactly one
\* error, with field page_size and code PAGE_SIZE_EXCEEDS_MAX, when
\* PageSize > N (N = 50: PageSize 30 valid, PageSize 60 one error).
C12_MaxRule ==
    \A n \in { 20, 50 } :
        (Validated /\ OnlyMaxRule(pre, ToString(n)) /\ ViolatedBuiltins(pre) = {})
        => IF pre.PageSize <= n
           THEN validation.IsValid /\ Len(validation.Errors) = 0
           ELSE /\ ~validation.IsValid
                /\ Len(validation.Errors) = 1
                /\ validation.Errors[1].Field = "page_size"
                /\ validation.Errors[1].Code = "PAGE_SIZE_EXCEEDS_MAX"

C12_Witness ==
    /\ Validated
    /\ OnlyMaxRule(pre, "50") /\ ViolatedBuiltins(pre) = {}
    /\ pre.PageSize = 60
    /\ Len(validation.Errors) = 1
    /\ validation.Errors[1].Code = "PAGE_SIZE_EXCEEDS_MAX"

\* The positions of the selected fields a list of allowed names rejects.
Rejected(md, allowed) ==
    { i \in DOMAIN md.SelectedFields :
        /\ md.SelectedFields[i] # "*"
        /\ \A k \in DOMAIN allowed : allowed[k] # md.SelectedFields[i] }

\* C13: with the custom rule fields -> "in:a,b,c", Validate returns at most
\* one INVALID_SELECTED_FIELD error, raised for the first entry of
\* SelectedFields that is not "*" and not in the allowed set, and none when
\* every selected field other than "*" is allowed.
C13_FieldsRule ==
    (Validated /\ pre.ValidationRules["fields"].prefix = "in:") =>
        LET allowed == pre.ValidationRules["fields"].rest
            rejected == Rejected(pre, allowed)
            raised == ErrorsWithCode("INVALID_SELECTED_FIELD")
        IN /\ Cardinality(raised) <= 1
           /\ (raised = {}) = (rejected = {})
           /\ \A e \in raised :
                  \E i \in rejected :
                      /\ \A j \in rejected : i <= j
                      /\ validation.Errors[e].Field = "fields"
                      /\ validation.Errors[e].Message
                             = "Selected field '" \o pre.SelectedFields[i]
                               \o "' is not allowed. Allowed fields: "
                               \o Join(allowed, ", ")

C13_Witness ==
    /\ Validated
    /\ pre.ValidationRules["fields"] = Rule("in:", << "id", "name" >>)
    /\ pre.SelectedFields = << "*", "bogus", "worse" >>
    /\ Cardinality(ErrorsWithCode("INVALID_SELECTED_FIELD")) = 1

(***************************************************************************)
(* The raw-SQL driver.                                                     *)
(***************************************************************************)
IntArg(n) ==
    [ kind |-> "int", int |-> n, text |-> << >> ]

TextArg(bytes) ==
    [ kind |-> "text", int |-> 0, text |-> bytes ]

\* The placeholder of the argument at position k: $k on PostgreSQL, ? elsewhere.
Placeholder(dialect, k) ==
    IF dialect = "PostgreSQL" THEN "$" \o ToString(k) ELSE "?"

\* Mutant: a token that does not decode is skipped, as the GORM scope does,
\* and the query runs without the condition.
ApplyCursorSQLPagination_SkipsUndecoded(md, n, dialect, query, args, fetchFails) ==
    LET decoded == DecodeCursor(md.Cursor)
        bound == md.Cursor # << >> /\ decoded.ok
        condition == IF bound
                     THEN "WHERE " \o md.CursorField \o " " \o Operator(md) \o " "
                          \o Placeholder(dialect, Len(args) + 1)
                     ELSE ""
        condArgs == IF bound THEN args \o << TextArg(decoded.value) >> ELSE args
        q == [ EmptyQuery EXCEPT
                 !.op = "sql",
                 !.where = IF bound
                           THEN << [ field |-> md.CursorField,
                                     operator |-> Operator(md),
                                     value |-> decoded.value ] >>
                           ELSE << >>,
                 !.order = << [ field |-> md.CursorField, dir |-> md.CursorOrder ] >>,
                 !.limit = << md.PageSize >>,
                 !.text = query \o " " \o condition \o " ORDER BY " \o md.CursorField
                          \o " " \o md.CursorOrder \o " LIMIT "
                          \o Placeholder(dialect, Len(condArgs) + 1),
                 !.args = condArgs \o << IntArg(md.PageSize) >> ]
    IN IF fetchFails \/ QueryRefused(q, dialect)
       THEN [ m |-> md, err |-> "fetch failed", result |-> << >>,
              queries |-> << q >> ]
       ELSE [ m |-> md, err |-> "", result |-> Execute(q, n, dialect),
              queries |-> << q >> ]

\* applyCursorSQLPagination: decode first, then one query with the condition
\* (if any), ORDER BY cursorField cursorOrder and LIMIT.
ApplyCursorSQLPagination(md, n, dialect, query, args, fetchFails) ==
    LET decoded == DecodeCursor(md.Cursor)
        condition == IF md.Cursor # << >>
                     THEN "WHERE " \o md.CursorField \o " " \o Operator(md) \o " "
                          \o Placeholder(dialect, Len(args) + 1)
                     ELSE ""
        condArgs == IF md.Cursor # << >> THEN args \o << TextArg(decoded.value) >>
                    ELSE args
        q == [ EmptyQuery EXCEPT
                 !.op = "sql",
                 !.where = IF md.Cursor # << >>
                           THEN << [ field |-> md.CursorField,
                                     operator |-> Operator(md),
                                     value |-> decoded.value ] >>
                           ELSE << >>,
                 !.order = << [ field |-> md.CursorField, dir |-> md.CursorOrder ] >>,
                 !.limit = << md.PageSize >>,
                 !.text = query \o " " \o condition \o " ORDER BY " \o md.CursorField
                          \o " " \o md.CursorOrder \o " LIMIT "
                          \o Placeholder(dialect, Len(condArgs) + 1),
                 !.args = condArgs \o << IntArg(md.PageSize) >> ]
    IN IF md.Cursor # << >> /\ ~decoded.ok
       THEN [ m |-> md, err |-> "invalid cursor", result |-> << >>,
              queries |-> << >> ]
       ELSE IF fetchFails \/ QueryRefused(q, dialect)
       THEN [ m |-> md, err |-> "fetch failed", result |-> << >>,
              queries |-> << q >> ]
       ELSE [ m |-> md, err |-> "", result |-> Execute(q, n, dialect),
              queries |-> << q >> ]

\* QueryContextPaginate(ctx, db, dialect, query, m, args...).
QueryContextPaginateRun(md, n, dialect, query, args, fetchFails) ==
    LET paged == [ md EXCEPT
                     !.TotalPages =
                         IF md.PageSize > 0
                         THEN GoDiv(md.TotalRows + md.PageSize - 1, md.PageSize)
                         ELSE 1 ]
        offset == (md.Page - 1) * md.PageSize
        q == [ EmptyQuery EXCEPT
                 !.op = "sql",
                 !.order = << [ field |-> md.Sort, dir |-> md.SortDirection ] >>,
                 !.limit = << md.PageSize >>,
                 !.offset = << offset >>,
                 !.text = query \o " ORDER BY " \o md.Sort \o " " \o md.SortDirection
                          \o " LIMIT " \o Placeholder(dialect, Len(args) + 1)
                          \o " OFFSET " \o Placeholder(dialect, Len(args) + 2),
                 !.args = args \o << IntArg(md.PageSize), IntArg(offset) >> ]
    IN IF ~IsValid(md)
       THEN [ m |-> md, err |-> "invalid metadata", result |-> << >>,
              queries |-> << >> ]
       ELSE IF IsCursorBased(md)
       THEN ApplyCursorSQLPagination(md, n, dialect, query, args, fetchFails)
       ELSE IF fetchFails \/ QueryRefused(q, dialect)
       THEN [ m |-> paged, err |-> "fetch failed", result |-> << >>,
              queries |-> << q >> ]
       ELSE [ m |-> paged, err |-> "", result |-> Execute(q, n, dialect),
              queries |-> << q >> ]

(***************************************************************************)
(* The driver specification: a caller builds a Metadata, then calls the    *)
(* entry points on it any number of times while the table changes.         *)
(***************************************************************************)
TableSizes ==
    { 0, MaxRows }

DriverPageSizes ==
    { 2, 200 }

\* A token that is no base64, the token of the text "2", and the token
\* Paginate attaches after a page that ends with row 2.
BadCursor ==
    << 0, 99 >>

DriverCursors ==
    { << >>, BadCursor, EncodeCursor(Digits(2)),
      EncodeCursor(CursorText(2, Row(2).Name, 1)) }

DriverSorts ==
    { << "", "" >>, << "", "desc" >>, << "name", "desc" >>, << "name", "up" >> }

UsersQuery ==
    "SELECT * FROM users"

\* The outcomes of the database during one call: both statements succeed on
\* one of the engines, or the count fails, or the fetch fails.
Outcomes ==
    { [ countFails |-> FALSE, fetchFails |-> FALSE, dialect |-> d ] : d \in Dialects }
    \cup { [ countFails |-> TRUE, fetchFails |-> FALSE, dialect |-> "SQLite" ],
           [ countFails |-> FALSE, fetchFails |-> TRUE, dialect |-> "SQLite" ] }

InitDriver ==
    /\ \/ \E p \in 0 .. MaxPage, ps \in DriverPageSizes, s \in DriverSorts,
             tr \in { 0, MaxRows } :
             m = [ NewMetadata EXCEPT !.Page = p, !.PageSize = ps, !.Sort = s[1],
                                      !.SortDirection = s[2], !.TotalRows = tr ]
       \/ \E c \in DriverCursors, cf \in CursorFields, co \in CursorOrders,
             s \in { "", "name" } :
             m = [ NewMetadata EXCEPT !.PageSize = 2, !.Cursor = c,
                                      !.CursorField = cf, !.CursorOrder = co,
                                      !.Sort = s ]
       \/ \E f \in { << "*" >>, << "name" >>, << "id", "name" >> },
             cf \in CursorFields :
             m = [ NewMetadata EXCEPT !.PageSize = 2, !.SelectedFields = f,
                                      !.CursorField = cf ]
       \/ \E ps \in { 2, 30 } :
             m = [ NewMetadata EXCEPT
                     !.PageSize = ps,
                     !.ValidationRules["page_size"] = Rule("max:", << "20" >>) ]
       \/ \E p \in 1 .. 2, c \in { << >>, EncodeCursor(Digits(2)) },
             cf \in CursorFields :
             /\ c # << >> => cf # ""
             /\ m = [ NewMetadata EXCEPT !.Page = p, !.PageSize = 2, !.Cursor = c,
                                         !.CursorField = cf, !.Debug = TRUE ]
    /\ table \in TableSizes
    /\ pre = m
    /\ lastOp = "init"
    /\ validation = NoValidation
    /\ err = "" /\ result = << >> /\ queries = << >>
    /\ codec = NoCodec
    /\ optimizer = NoOptimizer
    /\ engine = TestEngine

\* GPaginate(m) applied to a handle that is not executed, as the tests do.
GPaginate ==
    /\ m' = Normalize(m)
    /\ queries' = << [ ScopeQuery(Normalize(m)) EXCEPT !.op = "scope" ] >>
    /\ err' = "" /\ result' = << >>
    /\ pre' = m /\ lastOp' = "GPaginate"
    /\ UNCHANGED <<validation, table, codec, optimizer, engine>>

Paginate ==
    \E o \in Outcomes :
        \E out \in { PaginateRun(m, table, o.countFails, o.fetchFails, o.dialect) } :
            /\ m' = out.m /\ err' = out.err
            /\ result' = out.result /\ queries' = out.queries
            /\ pre' = m /\ lastOp' = "Paginate"
            /\ UNCHANGED <<validation, table, codec, optimizer, engine>>

\* The caller's count query returns any number, not always the table's.
PaginateWithCount ==
    \E counted \in { 0, MaxRows }, o \in Outcomes :
        \E out \in { PaginateWithCountRun(m, table, counted, o.countFails,
                                          o.fetchFails, o.dialect) } :
            /\ m' = out.m /\ err' = out.err
            /\ result' = out.result /\ queries' = out.queries
            /\ pre' = m /\ lastOp' = "PaginateWithCount"
            /\ UNCHANGED <<validation, table, codec, optimizer, engine>>

QueryContextPaginate ==
    \E o \in Outcomes :
        \E out \in { QueryContextPaginateRun(m, table, o.dialect, UsersQuery,
                                             << >>, o.fetchFails) } :
            /\ ~o.countFails
            /\ m' = out.m /\ err' = out.err
            /\ result' = out.result /\ queries' = out.queries
            /\ pre' = m /\ lastOp' = "QueryContextPaginate"
            /\ UNCHANGED <<validation, table, codec, optimizer, engine>>

\* Rows are inserted or deleted between two calls.
TableChanges ==
    /\ \E n \in TableSizes \ { table } : table' = n
    /\ lastOp' = "TableChanges"
    /\ UNCHANGED <<m, pre, validation, err, result, queries, codec, optimizer,
                 engine>>

Next ==
    \/ ValidateAndSetDefaults
    \/ GPaginate
    \/ Paginate
    \/ PaginateWithCount
    \/ QueryContextPaginate
    \/ TableChanges

Init ==
    InitDriver

Spec ==
    Init /\ [][Next]_vars

(***************************************************************************)
(* The codec specification: a value is printed, encoded and decoded.  The  *)
(* printed texts are every byte string up to MaxTextLen over a few bytes   *)
(* (NUL, ':', 'm' and 0xFF) and the texts Paginate prints for the rows.    *)
(***************************************************************************)
CodecBytes ==
    { 0, 58, 109, 255 }

Texts ==
    UNION { [ 1 .. n -> CodecBytes ] : n \in 0 .. MaxTextLen }
    \cup { CursorText(i, Row(i).Name, p) : i \in 1 .. MaxRows, p \in 1 .. MaxPage }

InitCodec ==
    /\ m = NewMetadata
    /\ pre = m
    /\ lastOp = "init"
    /\ validation = NoValidation
    /\ table = 0 /\ err = "" /\ result = << >> /\ queries = << >>
    /\ \E t \in Texts : codec = [ NoCodec EXCEPT !.step = "printed", !.text = t ]
    /\ optimizer = NoOptimizer
    /\ engine = TestEngine

Encode ==
    /\ codec.step = "printed"
    /\ codec' = [ codec EXCEPT !.step = "encoded",
                                !.token = EncodeCursor(codec.text) ]
    /\ UNCHANGED <<m, pre, lastOp, validation, driverVars, optimizer>>

Decode ==
    /\ codec.step = "encoded"
    /\ codec' = [ codec EXCEPT !.step = "decoded",
                                !.ok = DecodeCursor(codec.token).ok,
                                !.decoded = DecodeCursor(codec.token).value ]
    /\ UNCHANGED <<m, pre, lastOp, validation, driverVars, optimizer>>

NextCodec ==
    \/ Encode
    \/ Decode

SpecCodec ==
    InitCodec /\ [][NextCodec]_vars

\* C19: cursor round-trip law: for every value V, decodeCursor(encodeCursor(V))
\* succeeds and returns exactly the serialized form of V that encodeCursor
\* encoded.
C19_RoundTrip ==
    codec.step = "decoded" => (codec.ok /\ codec.decoded = codec.text)

C19_Witness ==
    /\ codec.step = "decoded"
    /\ codec.text = << 255, 0 >>
    /\ codec.token = << 63, 48, 0, Pad >>
    /\ codec.ok /\ codec.decoded = << 255, 0 >>

(***************************************************************************)
(* The optimizer specification: an optimizer is configured and a query is  *)
(* optimized for a dialect.  The queries are a SELECT over a table,        *)
(* followed or not by a clause; keywords come in either case, and one      *)
(* table name has the letters of the keyword in it.                        *)
(***************************************************************************)
QueryHeads ==
    { "SELECT * FROM users", "SELECT * FROM ELSEWHERE", "select * from nowhere" }

QueryTails ==
    { "", " WHERE age > 18", " where age > 18", " ORDER BY id",
      " WHERE id IN (SELECT id FROM t WHERE x)" }

Queries ==
    { h \o t : h \in QueryHeads, t \in QueryTails }

RowLimits ==
    { 0, 100 }

InitOptimizer ==
    /\ m = NewMetadata
    /\ pre = m
    /\ lastOp = "init"
    /\ validation = NoValidation
    /\ table = 0 /\ err = "" /\ result = << >> /\ queries = << >>
    /\ codec = NoCodec
    /\ engine = TestEngine
    /\ \E hint \in BOOLEAN, view \in BOOLEAN, limit \in RowLimits,
          d \in Dialects, query \in Queries :
          optimizer = [ NoOptimizer EXCEPT
                          !.step = "configured",
                          !.q = [ UseIndexHint |-> hint, UseMaterialized |-> view,
                                  RowLimit |-> limit ],
                          !.dialect = d, !.query = query ]

Optimize ==
    /\ optimizer.step = "configured"
    /\ optimizer' = [ optimizer EXCEPT
                        !.step = "optimized",
                        !.optimized = OptimizeQuery(optimizer.q, optimizer.query,
                                                    optimizer.dialect) ]
    /\ UNCHANGED <<m, pre, lastOp, validation, driverVars, codec>>

NextOptimizer ==
    Optimize

SpecOptimizer ==
    InitOptimizer /\ [][NextOptimizer]_vars

\* The positions of the keyword WHERE in a query: the letters in either case,
\* as a word of its own.
WherePositions(query) ==
    { i \in 1 .. Len(query) - 4 :
        /\ ToLower(SubSeq(query, i, i + 4)) = "where"
        /\ i = 1 \/ SubSeq(query, i - 1, i - 1) = " "
        /\ i + 4 = Len(query) \/ SubSeq(query, i + 5, i + 5) = " " }

\* C21: OptimizeQuery with index hints enabled, materialization off and
\* MaxRows = 0, for the MySQL dialect: a query that has a WHERE clause gets
\* FORCE INDEX (idx_created_at) injected immediately before its first WHERE
\* and is otherwise unchanged, and a query with no WHERE clause is returned
\* unchanged.
C21_Original ==
    (optimizer.step = "optimized" /\ optimizer.dialect = "MySQL"
        /\ optimizer.q.UseIndexHint /\ ~optimizer.q.UseMaterialized
        /\ optimizer.q.RowLimit = 0) =>
        LET query == optimizer.query
            at == WherePositions(query)
        IN IF at = {} THEN optimizer.optimized = query
           ELSE \E i \in at :
                    /\ \A j \in at : i <= j
                    /\ optimizer.optimized
                           = SubSeq(query, 1, i - 1) \o "FORCE INDEX (idx_created_at) "
                             \o SubSeq(query, i, Len(query))

(***************************************************************************)
(* Claims about ValidateAndSetDefaults, checked under SpecNormalize.       *)
(***************************************************************************)
Normalized ==
    lastOp = "ValidateAndSetDefaults"

\* C1: ValidateAndSetDefaults sets PageSize to 10 when it was below 1, to 100
\* when it was above 100, and leaves it unchanged when it was in 1..100.
C1_PageSizeClamped ==
    Normalized =>
        m.PageSize = IF pre.PageSize < 1 THEN 10
                     ELSE IF pre.PageSize > 100 THEN 100
                     ELSE pre.PageSize

C1_Witness ==
    /\ Normalized
    /\ pre.PageSize = 200
    /\ m.PageSize = 100

\* C2 as stated: after ValidateAndSetDefaults, Page >= 1, 1 <= PageSize <= 100,
\* SortDirection is "asc" or "desc" and CursorOrder is "asc", "desc" or empty.
C2_Original ==
    Normalized =>
        /\ m.Page >= 1
        /\ 1 <= m.PageSize /\ m.PageSize <= 100
        /\ m.SortDirection \in { "asc", "desc" }
        /\ m.CursorOrder \in { "asc", "desc", "" }

\* C2 as amended: after ValidateAndSetDefaults, Page >= 1, 1 <= PageSize <= 100
\* and SortDirection is "asc" or "desc"; CursorOrder is left exactly as it was,
\* so it is "asc", "desc" or empty only if it was so before the call.
C2_Amended ==
    Normalized =>
        /\ m.Page >= 1
        /\ 1 <= m.PageSize /\ m.PageSize <= 100
        /\ m.SortDirection \in { "asc", "desc" }
        /\ m.CursorOrder = pre.CursorOrder

C2_Witness ==
    /\ Normalized
    /\ pre.Page < 1 /\ pre.PageSize > 100 /\ pre.SortDirection = "up"
    /\ pre.CursorOrder = "sideways"
    /\ m.CursorOrder = "sideways"

\* C4: in every normalized state with TotalRows > 0, HasNext equals
\* (Page < TotalPages) and HasPrevious equals (Page > 1).
C4_HasNextHasPrevious ==
    (Normalized /\ m.TotalRows > 0) =>
        /\ m.HasNext = (m.Page < m.TotalPages)
        /\ m.HasPrevious = (m.Page > 1)

C4_Witness ==
    /\ Normalized
    /\ m.TotalRows > 0
    /\ m.Page = m.TotalPages
    /\ ~m.HasNext /\ m.HasPrevious

\* C5: in every normalized state with TotalRows > 0, FromRow equals
\* (Page-1)*PageSize + 1 and ToRow equals min(Page*PageSize, TotalRows); Page=2,
\* PageSize=3, TotalRows=5 gives FromRow=4 and ToRow=5.
C5_FromRowToRow ==
    (Normalized /\ m.TotalRows > 0) =>
        /\ m.FromRow = (m.Page - 1) * m.PageSize + 1
        /\ m.ToRow = IF m.Page * m.PageSize < m.TotalRows
                     THEN m.Page * m.PageSize ELSE m.TotalRows
        /\ (m.Page = 2 /\ m.PageSize = 3 /\ m.TotalRows = 5) =>
               (m.FromRow = 4 /\ m.ToRow = 5)

C5_Witness ==
    /\ Normalized
    /\ pre.Page = 2 /\ pre.PageSize = 3 /\ pre.TotalRows = 5
    /\ m.FromRow = 4 /\ m.ToRow = 5

\* C6 as stated: {Page:3, PageSize:20, TotalRows:100} normalizes to TotalPages=5,
\* GetOffset()=40, HasNext=false and HasPrevious=true.
C6_Original ==
    (Normalized /\ pre.Page = 3 /\ pre.PageSize = 20 /\ pre.TotalRows = 100) =>
        /\ m.TotalPages = 5
        /\ GetOffset(m) = 40
        /\ m.HasNext = FALSE
        /\ m.HasPrevious = TRUE

\* C6 as amended: {Page:3, PageSize:20, TotalRows:100} normalizes to TotalPages=5,
\* GetOffset()=40, HasNext=true (page 3 of 5) and HasPrevious=true.
C6_Amended ==
    (Normalized /\ pre.Page = 3 /\ pre.PageSize = 20 /\ pre.TotalRows = 100) =>
        /\ m.TotalPages = 5
        /\ GetOffset(m) = 40
        /\ m.HasNext = TRUE
        /\ m.HasPrevious = TRUE

C6_Witness ==
    /\ Normalized
    /\ pre.Page = 3 /\ pre.PageSize = 20 /\ pre.TotalRows = 100
    /\ m.Page = 3 /\ m.PageSize = 20 /\ m.TotalPages = 5

\* C9: ValidateAndSetDefaults is idempotent: applied to a state it has just
\* produced, it leaves every field as it is.
C9_Idempotent ==
    Normalized => Normalize(m) = m

C9_Witness ==
    /\ Normalized
    /\ pre.Page < 1 /\ pre.PageSize > 100 /\ pre.TotalRows > 0
    /\ m # pre
    /\ Normalize(m) = m

(***************************************************************************)
(* Claims about the derived fields across calls, checked under Spec.       *)
(***************************************************************************)
\* ValidateAndSetDefaults was the last thing to write the Metadata.
NormalizedLast ==
    \/ lastOp \in { "ValidateAndSetDefaults", "GPaginate" }
    \/ lastOp \in { "Paginate", "PaginateWithCount" } /\ err = ""

OffsetQueryDone ==
    lastOp = "QueryContextPaginate" /\ err = "" /\ ~IsCursorBased(m)

\* ceil(rows / size) for rows >= 0 and size >= 1, without the code's arithmetic.
Ceil(rows, size) ==
    CHOOSE k \in 0 .. rows : k * size >= rows /\ (k = 0 \/ (k - 1) * size < rows)

\* C3: in every Metadata state reached by ValidateAndSetDefaults, or left by
\* a successful Paginate, PaginateWithCount or offset-mode
\* QueryContextPaginate, TotalPages = ceil(TotalRows / PageSize), for every
\* TotalRows >= 0 and PageSize >= 1.
C3_Original ==
    (NormalizedLast \/ OffsetQueryDone) /\ m.TotalRows >= 0 /\ m.PageSize >= 1
        => m.TotalPages = Ceil(m.TotalRows, m.PageSize)

\* C7: whenever ValidateAndSetDefaults has run on a Metadata whose TotalRows
\* is 0, a reused Metadata included, TotalPages, HasNext, HasPrevious,
\* FromRow and ToRow hold their zero values afterwards.
C7_Original ==
    NormalizedLast /\ m.TotalRows = 0
        => /\ m.TotalPages = 0
           /\ ~m.HasNext /\ ~m.HasPrevious
           /\ m.FromRow = 0 /\ m.ToRow = 0

(***************************************************************************)
(* Claims about the drivers, checked under Spec.                           *)
(***************************************************************************)
DriverCalled ==
    lastOp \in { "Paginate", "PaginateWithCount", "QueryContextPaginate" }

\* The statements of the last call that fetch rows.
Fetches ==
    { i \in DOMAIN queries : queries[i].op \in { "find", "sql" } }

Counts ==
    { i \in DOMAIN queries : queries[i].op \in { "count", "customcount" } }

\* Validate would report the Metadata as not valid, whatever the order in
\* which it visits the custom rules.
Invalid(md) ==
    \A order \in KeyOrders(md) : ~ValidateResult(md, order).IsValid

\* C14: for every Metadata that Validate reports as not valid, Paginate,
\* PaginateWithCount and QueryContextPaginate return an error and issue
\* neither a count query nor a fetch query.
C14_InvalidRefused ==
    (DriverCalled /\ Invalid(pre)) =>
        /\ err # ""
        /\ queries = << >>
        /\ result = << >>

C14_Witness ==
    /\ lastOp = "Paginate"
    /\ pre.ValidationRules["page_size"] = Rule("max:", << "20" >>)
    /\ pre.PageSize = 30
    /\ err = "invalid metadata"
    /\ queries = << >>

\* C15: in every run of Paginate and PaginateWithCount the count completes and
\* its result is stored in TotalRows before the fetch is issued, the fetch is
\* never issued after a failed count, and for PaginateWithCount TotalRows is
\* the result of the caller's count query, not of the result query.
C15_CountBeforeFetch ==
    lastOp \in { "Paginate", "PaginateWithCount" } =>
        /\ \A i \in DOMAIN queries :
               queries[i].op \in { "find", "tosql" } =>
                   /\ i > 1
                   /\ queries[1].op = IF lastOp = "Paginate" THEN "count"
                                      ELSE "customcount"
                   /\ queries[1].count # << >>
                   /\ m.TotalRows = queries[1].count[1]
        /\ Cardinality(Counts) <= 1
        /\ (lastOp = "Paginate" /\ Fetches # {}) => queries[1].count = << table >>
        /\ \A i \in Counts :
               queries[i].count = << >> =>
                   /\ err # "" /\ Fetches = {} /\ Len(queries) = 1
                   /\ m = pre

C15_Witness ==
    /\ lastOp = "PaginateWithCount"
    /\ err = "fetch failed"
    /\ table = 0
    /\ pre.TotalRows = 0
    /\ queries[1].count = << MaxRows >>
    /\ m.TotalRows = MaxRows
    /\ Fetches # {}

\* The statements of the last call that carry the paging clauses.
Paged ==
    { i \in DOMAIN queries : queries[i].op \in { "find", "sql", "scope" } }

\* The rows at positions from .. upto of the table's rows in the order of an
\* ORDER BY clause (by id when there is none), with the selected columns.
Positions(from, upto, order, select) ==
    LET ordered == IF order = << >> THEN SortIds(1 .. table, "id", "asc")
                   ELSE SortIds(1 .. table, order[1].field, order[1].dir)
        last == IF upto < Len(ordered) THEN upto ELSE Len(ordered)
    IN [ k \in 1 .. (IF last >= from THEN last - from + 1 ELSE 0) |->
           Project(Row(ordered[from + k - 1]), select) ]

\* C16: in offset mode (Cursor and CursorField both empty), on the GORM entry
\* points and on QueryContextPaginate, the fetch applies ORDER BY sortField
\* sortDirection only if sortField is set, then OFFSET (Page-1)*PageSize and
\* LIMIT PageSize, so the rows returned are those at positions
\* offset+1 .. min(offset+PageSize, N) of the ordered row set of N rows.
C16_Original ==
    (lastOp \in { "GPaginate", "Paginate", "PaginateWithCount", "QueryContextPaginate" }
        /\ pre.Cursor = << >> /\ pre.CursorField = "") =>
        \A i \in Paged :
            LET offset == (m.Page - 1) * m.PageSize
            IN /\ queries[i].order
                      = IF m.Sort # ""
                        THEN << [ field |-> m.Sort, dir |-> m.SortDirection ] >>
                        ELSE << >>
               /\ queries[i].where = << >>
               /\ queries[i].offset = << offset >>
               /\ queries[i].limit = << m.PageSize >>
               /\ (err = "" /\ queries[i].op # "scope") =>
                      result = Positions(offset + 1, offset + m.PageSize,
                                         queries[i].order, queries[i].select)

\* C17: in cursor mode on the first page (Cursor empty, CursorField and
\* CursorOrder set, as in CursorField="created_at", CursorOrder="desc",
\* PageSize=10) the fetch issued has no WHERE condition and carries exactly
\* ORDER BY cursorField cursorOrder LIMIT PageSize, on the GORM entry point
\* as well as on QueryContextPaginate.
C17_Original ==
    (lastOp \in { "GPaginate", "Paginate", "PaginateWithCount", "QueryContextPaginate" }
        /\ pre.Cursor = << >> /\ pre.CursorField # "" /\ pre.CursorOrder # "") =>
        \A i \in Paged :
            /\ queries[i].where = << >>
            /\ queries[i].order
                   = << [ field |-> pre.CursorField, dir |-> pre.CursorOrder ] >>
            /\ queries[i].limit = << m.PageSize >>
            /\ queries[i].offset = << >>

\* C18: after a successful Paginate or PaginateWithCount, Cursor is replaced
\* by the encoding of the last fetched row's id, name and the current page
\* number exactly when the Metadata is in cursor mode, HasNext is true and the
\* result is non-empty; in every other case Cursor is left as it was.
C18_NextCursor ==
    (lastOp \in { "Paginate", "PaginateWithCount" } /\ err = "") =>
        IF (pre.Cursor # << >> \/ pre.CursorField # "") /\ m.HasNext /\ Len(result) > 0
        THEN /\ m.Cursor = EncodeCursor(CursorText(result[Len(result)].ID,
                                                   result[Len(result)].Name,
                                                   m.Page))
             /\ DecodeCursor(m.Cursor).ok
             /\ DecodeCursor(m.Cursor).value
                    = CursorText(result[Len(result)].ID, result[Len(result)].Name,
                                 m.Page)
        ELSE m.Cursor = pre.Cursor

C18_Witness ==
    /\ lastOp = "Paginate" /\ err = ""
    /\ pre.Cursor = << >> /\ pre.CursorField = "id"
    /\ m.HasNext /\ Len(result) = 2
    /\ m.Cursor # << >>
    /\ DecodeCursor(m.Cursor).value = CursorText(2, Row(2).Name, 1)

\* What a call returns to its caller, the Debug field of the Metadata aside.
Returned(out) ==
    [ err |-> out.err, result |-> out.result,
      m |-> [ out.m EXCEPT !.Debug = FALSE ] ]

WithDebug(md, enabled) ==
    [ md EXCEPT !.Debug = enabled ]

\* C20: the debug flag never alters control flow or results: for every
\* Metadata, data set and data-source outcome, Paginate (or PaginateWithCount)
\* with Debug=true and with Debug=false returns the same error value, the same
\* fetched rows and the same final Metadata apart from the Debug field.
C20_DebugNeutral ==
    /\ lastOp = "Paginate" =>
           \A o \in Outcomes :
               Returned(PaginateRun(WithDebug(pre, TRUE), table, o.countFails,
                                    o.fetchFails, o.dialect))
               = Returned(PaginateRun(WithDebug(pre, FALSE), table, o.countFails,
                                      o.fetchFails, o.dialect))
    /\ lastOp = "PaginateWithCount" =>
           \A o \in Outcomes, counted \in { 0, MaxRows } :
               Returned(PaginateWithCountRun(WithDebug(pre, TRUE), table, counted,
                                             o.countFails, o.fetchFails, o.dialect))
               = Returned(PaginateWithCountRun(WithDebug(pre, FALSE), table, counted,
                                               o.countFails, o.fetchFails, o.dialect))

C20_Witness ==
    /\ lastOp = "Paginate" /\ err = ""
    /\ pre.Debug /\ m.Debug
    /\ pre.CursorField = "id"
    /\ m.Cursor # pre.Cursor
    /\ Len(result) = 2
    /\ \E i \in DOMAIN queries : queries[i].op = "tosql"
    /\ Returned(PaginateRun(WithDebug(pre, FALSE), table, FALSE, FALSE, "SQLite"))
           = [ err |-> err, result |-> result, m |-> WithDebug(m, FALSE) ]

\* The last call ran in cursor mode on a token that decodes.
FollowsCursor ==
    /\ pre.Cursor # << >>
    /\ DecodeCursor(pre.Cursor).ok

\* C22: in cursor mode with a non-empty Cursor that decodes, the fetch adds
\* the condition cursorField > value (ascending) or cursorField < value
\* (descending), value being the decoded Cursor, then ORDER BY cursorField
\* cursorOrder and LIMIT PageSize, on the GORM entry points as well as on
\* QueryContextPaginate.
C22_Original ==
    (lastOp \in { "GPaginate", "Paginate", "PaginateWithCount", "QueryContextPaginate" }
        /\ FollowsCursor) =>
        \A i \in Paged :
            /\ queries[i].where
                   = << [ field |-> m.CursorField,
                          operator |-> IF m.CursorOrder = "desc" THEN "<" ELSE ">",
                          value |-> DecodeCursor(pre.Cursor).value ] >>
            /\ queries[i].order
                   = << [ field |-> m.CursorField, dir |-> m.CursorOrder ] >>
            /\ queries[i].limit = << m.PageSize >>
            /\ queries[i].offset = << >>

\* The rows and pages whose cursor, as Paginate attaches it, is the token.
AttachedFrom(token) ==
    { r \in [ id : 0 .. MaxRows,
              name : { "" } \cup { Row(i).Name : i \in 1 .. MaxRows },
              page : 1 .. MaxPage ] :
        /\ DecodeCursor(token).ok
        /\ DecodeCursor(token).value = CursorText(r.id, r.name, r.page) }

\* The value of a column of such a row, as the fetch would bind it.
ColumnValue(r, field) ==
    IF field = "id" THEN Digits(r.id) ELSE NameBytes(r.name)

\* C23: when Paginate follows a cursor that an earlier Paginate attached, the
\* value compared against cursorField in the WHERE condition is the last
\* row's value of cursorField from that earlier page.
C23_Original ==
    (lastOp \in { "Paginate", "PaginateWithCount" }) =>
        \A r \in AttachedFrom(pre.Cursor) :
            \A i \in Fetches :
                /\ queries[i].where # << >>
                /\ queries[i].where[1].field = m.CursorField
                /\ queries[i].where[1].value = ColumnValue(r, m.CursorField)

\* The last call ran on a token that does not decode, in a Metadata that
\* Validate accepts.
UndecodableCursor ==
    /\ pre.Cursor # << >>
    /\ ~DecodeCursor(pre.Cursor).ok
    /\ IsValid(pre)

C25_UndecodableRefused ==
    (lastOp = "QueryContextPaginate" /\ UndecodableCursor) =>
        /\ err = "invalid cursor"
        /\ queries = << >>
        /\ result = << >>

C25_Witness ==
    /\ lastOp = "QueryContextPaginate"
    /\ pre.Cursor = BadCursor /\ pre.CursorField = "id"
    /\ table = MaxRows
    /\ err = "invalid cursor"
    /\ queries = << >>

(***************************************************************************)
(* The traversal specification: over a table that does not change, on one  *)
(* engine that answers every statement, a caller starts in cursor mode     *)
(* with an empty Cursor and calls Paginate again and again on the same     *)
(* Metadata, which holds the Cursor the previous call left in it.  The     *)
(* caller's loop is at one of two positions: about to call (lastOp is      *)
(* "init" or "Paginate") or inside the call (lastOp is "calling").         *)
(* The caller never stops calling, which is the weak fairness of Call, and *)
(* every call returns: Traverse is enabled exactly when lastOp is          *)
(* "calling" and leaves that position, so its weak fairness is that the    *)
(* loop is again and again outside the call.                               *)
(***************************************************************************)
TraversalTables ==
    0 .. MaxRows

TraversalPageSizes ==
    { 1, 2, 200 }

InitTraversal ==
    /\ \E ps \in TraversalPageSizes, co \in { "", "asc", "desc" },
          s \in { "", "name" } :
           m = [ NewMetadata EXCEPT !.PageSize = ps, !.CursorField = "id",
                                    !.CursorOrder = co, !.Sort = s ]
    /\ table \in TraversalTables
    /\ engine \in Dialects
    /\ pre = m
    /\ lastOp = "init"
    /\ validation = NoValidation
    /\ err = "" /\ result = << >> /\ queries = << >>
    /\ codec = NoCodec
    /\ optimizer = NoOptimizer

\* The caller enters Paginate with the Metadata as the last call left it.
Call ==
    /\ lastOp # "calling"
    /\ lastOp' = "calling"
    /\ UNCHANGED <<m, pre, validation, driverVars, codec, optimizer>>

\* Paginate runs and returns.
Traverse ==
    /\ lastOp = "calling"
    /\ \E out \in { PaginateRun(m, table, FALSE, FALSE, engine) } :
           /\ m' = out.m /\ err' = out.err
           /\ result' = out.result /\ queries' = out.queries
           /\ pre' = m /\ lastOp' = "Paginate"
           /\ UNCHANGED <<validation, table, codec, optimizer, engine>>

NextTraversal ==
    \/ Call
    \/ Traverse

SpecTraversal ==
    /\ InitTraversal /\ [][NextTraversal]_vars
    /\ WF_vars(Call)
    /\ []<>(lastOp # "calling")

\* C26: cursor traversal terminates: over a fixed finite row set, starting in
\* cursor mode with an empty Cursor and repeatedly calling Paginate with the
\* Cursor attached by the previous call, a call is eventually reached after
\* which HasNext is false and no new cursor is attached.
C26_Original ==
    <>(lastOp = "Paginate" /\ ~m.HasNext /\ m.Cursor = pre.Cursor)

\* C27: every fetch issued by Paginate, PaginateWithCount or
\* QueryContextPaginate, in offset mode and in cursor mode and for every
\* Cursor value, carries a row limit equal to PageSize with
\* 1 <= PageSize <= 100, so that no call returns more rows than that.
C27_Original ==
    DriverCalled =>
        \A i \in Fetches :
            /\ queries[i].limit = << m.PageSize >>
            /\ m.PageSize \in 1 .. MaxPageSize
            /\ Len(result) <= m.PageSize

\* C28: whenever Paginate or PaginateWithCount returns an error (validation
\* failure, count failure or fetch failure), the Metadata is equal, field for
\* field, to what it was before the call.
C28_Original ==
    (lastOp \in { "Paginate", "PaginateWithCount" } /\ err # "") =>
        m = pre

\* C29: after every successful offset-mode Paginate that counted
\* TotalRows > 0, the reported row range is a valid non-empty range inside
\* the data: 1 <= FromRow <= ToRow <= TotalRows, for every Page >= 1 that
\* passes validation.
C29_Original ==
    (lastOp = "Paginate" /\ err = "" /\ pre.Cursor = << >> /\ pre.CursorField = ""
        /\ m.TotalRows > 0 /\ pre.Page >= 1) =>
        /\ 1 <= m.FromRow
        /\ m.FromRow <= m.ToRow
        /\ m.ToRow <= m.TotalRows


====
